---------------------------- MODULE Spec2Model ----------------------------
(***************************************************************************)
(* Project Manager (Streamlit + Supabase), src/app.py.                     *)
(*                                                                         *)
(* Two specifications over the same state:                                 *)
(*   SpecDAL  the four data-access functions (add_project, update_project, *)
(*            delete_project, get_projects) called directly, by any caller *)
(*            with any arguments, against the projects table;              *)
(*   Spec     the Streamlit script: every run of one session executes the  *)
(*            script top to bottom against the table, while other sessions *)
(*            write to it; the ids of the delete_project calls the script  *)
(*            has completed are kept as history.                           *)
(*                                                                         *)
(* Text is a sequence of one-character strings.                            *)
(***************************************************************************)
EXTENDS Integers, Sequences, FiniteSets, TLC

\* ------------------------------------------------------------------ bounds

\* The serial column hands out ids 1..MaxId; inserts stop after that.
MaxId == 2

\* Keywords typed into the search box have at most this many characters.
MaxKeywordLen == 2

\* ------------------------------------------------------------------- text

\* Characters a keyword is made of: letters of both cases, the two LIKE
\* wildcards and the separator of a PostgREST or-filter.
KeywordChars == {"a", "B", "%", "_", ","}

\* The characters str.strip() removes: those str.isspace() holds for.  A
\* character TLA+ has no escape for is written by its Python escape.
Whitespace ==
    {" ", "\t", "\n", "\r", "\f", "\\x0b", "\\x1c", "\\x1d", "\\x1e", "\\x1f",
     "\\x85", "\\xa0", "\\u1680", "\\u2000", "\\u2001", "\\u2002", "\\u2003",
     "\\u2004", "\\u2005", "\\u2006", "\\u2007", "\\u2008", "\\u2009",
     "\\u200a", "\\u2028", "\\u2029", "\\u202f", "\\u205f", "\\u3000"}

RECURSIVE SeqsUpTo(_, _)
SeqsUpTo(S, n) ==
    IF n = 0 THEN {<<>>}
    ELSE LET shorter == SeqsUpTo(S, n - 1)
         IN  shorter \cup {Append(s, c) : s \in shorter, c \in S}

\* What the search box or a caller can pass as the keyword.
Keywords == SeqsUpTo(KeywordChars, MaxKeywordLen)

\* keyword=None, the default of get_projects.
None == <<"None">>

\* Project names and descriptions stored by callers of the data-access layer.
Texts == {<<"a">>, <<"A", "b">>}

\* What a user can type into the name field of the Add form, a one-line
\* text input: nothing, only whitespace, a text with whitespace after it.
NameTexts == {<<>>, <<" ">>, <<"a", " ">>}

\* What a user can type into the description field, a text area: nothing,
\* only whitespace, a text with whitespace around it.
DescTexts == {<<>>, <<"\n">>, <<"\t", "A", "b", "\n">>}

\* str.lower() on one character, as ILIKE folds case.
Lower(c) == IF c = "A" THEN "a" ELSE IF c = "B" THEN "b" ELSE c

\* str.strip(): leading and trailing whitespace removed.
RECURSIVE lstrip(_)
lstrip(s) ==
    IF s # <<>> /\ Head(s) \in Whitespace THEN lstrip(Tail(s)) ELSE s

RECURSIVE rstrip(_)
rstrip(s) ==
    IF s # <<>> /\ s[Len(s)] \in Whitespace
    THEN rstrip(SubSeq(s, 1, Len(s) - 1)) ELSE s

strip(s) == rstrip(lstrip(s))

\* Python truthiness of a str or None.
Truthy(s) == s # None /\ Len(s) > 0

\* s contains k as a substring, ignoring case (what the search is meant to do).
ContainsCI(s, k) ==
    \E i \in 0..(Len(s) - Len(k)) :
        \A j \in 1..Len(k) : Lower(s[i + j]) = Lower(k[j])

\* SQL ILIKE: '%' matches any run of characters, '_' any one character,
\* everything else matches itself up to case.
RECURSIVE ILike(_, _)
ILike(s, p) ==
    IF p = <<>> THEN s = <<>>
    ELSE IF Head(p) = "%"
         THEN ILike(s, Tail(p)) \/ (s # <<>> /\ ILike(Tail(s), p))
    ELSE IF s = <<>> THEN FALSE
    ELSE /\ Head(p) = "_" \/ Lower(Head(p)) = Lower(Head(s))
         /\ ILike(Tail(s), Tail(p))


\* ------------------------------------------------------------ the store

VARIABLES
    table,      \* the rows of the projects table
    nextId,     \* the next value of the serial sequence behind projects.id
    clock,      \* the database's current_timestamp
    deleted,    \* history: the ids of the delete_project calls the script
                \* has completed, in this session or another one
    credentials,\* SUPABASE_URL and SUPABASE_KEY are both set
    calls,      \* the data-access calls made by the last step, in order
    menu,       \* sidebar radio: the view selected in the session
    keyword,    \* the text in the Dashboard's search box
    event,      \* the user interaction that triggered the last script run
    shown,      \* the messages on the page after the last script run
    projects,   \* the project list rendered by the last script run
    editForm,   \* the id whose edit form the last script run rendered, or 0
    pending,    \* the last script run ended in st.experimental_rerun()
    sending,    \* the id whose delete request the running script is about
                \* to send, or 0
    actor       \* who took the last step: this session or another one

vars == <<table, nextId, clock, deleted, credentials, calls, menu,
          keyword, event, shown, projects, editForm, pending, sending,
          actor>>

storeVars == <<table, nextId, clock>>
histVars == <<deleted>>
uiVars == <<menu, keyword, event, shown, projects, editForm, pending, sending,
           actor>>

\* The ids a caller passes to update_project and delete_project.
Ids == 1..MaxId

\* The store as one value, threaded through the calls of a script run.
Db == [table |-> table, nextId |-> nextId, clock |-> clock]

\* One row: the columns of the DDL in init_db.
Row(id, name, desc, ts) ==
    [id |-> id, project_name |-> name, description |-> desc, date_added |-> ts]

\* One entry of the call log.
Call(op, id, name, desc, kw, raised, data) ==
    [op |-> op, id |-> id, name |-> name, desc |-> desc, keyword |-> kw,
     raised |-> raised, data |-> data]

\* ------------------------------------------------- the data-access layer

\* Mutant of add_project: the id is computed as the largest id in the table
\* plus one instead of being drawn from the serial sequence.
add_project_max_id(db, name, desc, ok, tick) ==
    IF ok
    THEN LET top == IF db.table = {} THEN 0
                    ELSE CHOOSE m \in {r.id : r \in db.table} :
                            \A r \in db.table : r.id <= m
         IN  [db |-> [db EXCEPT
                        !.table = @ \cup {Row(top + 1, name, desc, db.clock + tick)},
                        !.nextId = @ + 1,
                        !.clock = @ + tick],
              raised |-> FALSE]
    ELSE [db |-> db, raised |-> TRUE]

\* add_project: INSERT of (project_name, description); the store assigns id
\* from the serial sequence and date_added from current_timestamp, which has
\* moved on by `tick` (0 or 1) since the previous statement.  execute()
\* raises when the request fails (ok = FALSE) and nothing is stored.
add_project(db, name, desc, ok, tick) ==
    IF ok
    THEN [db |-> [db EXCEPT
                    !.table = @ \cup {Row(db.nextId, name, desc, db.clock + tick)},
                    !.nextId = @ + 1,
                    !.clock = @ + tick],
          raised |-> FALSE]
    ELSE [db |-> db, raised |-> TRUE]

\* Mutant of update_project: the .eq("id", project_id) filter is missing.
update_project_all(db, project_id, name, desc, ok) ==
    IF ok
    THEN [db |-> [db EXCEPT
                    !.table = {[r EXCEPT !.project_name = name,
                                         !.description = desc] : r \in @}],
          raised |-> FALSE]
    ELSE [db |-> db, raised |-> TRUE]

\* Mutant of update_project: an upsert, which stores a row when none matches.
update_project_upsert(db, project_id, name, desc, ok) ==
    IF ok
    THEN [db |-> [db EXCEPT
                    !.table =
                        IF \E r \in @ : r.id = project_id
                        THEN {IF r.id = project_id
                              THEN [r EXCEPT !.project_name = name,
                                             !.description = desc]
                              ELSE r : r \in @}
                        ELSE @ \cup {Row(project_id, name, desc, db.clock)}],
          raised |-> FALSE]
    ELSE [db |-> db, raised |-> TRUE]

\* update_project: UPDATE ... SET project_name, description WHERE id = project_id.
update_project(db, project_id, name, desc, ok) ==
    IF ok
    THEN [db |-> [db EXCEPT
                    !.table = {IF r.id = project_id
                               THEN [r EXCEPT !.project_name = name,
                                              !.description = desc]
                               ELSE r : r \in @}],
          raised |-> FALSE]
    ELSE [db |-> db, raised |-> TRUE]

\* delete_project: DELETE ... WHERE id = project_id.
delete_project(db, project_id, ok) ==
    IF ok
    THEN [db |-> [db EXCEPT
                    !.table = {r \in @ : r.id # project_id}],
          raised |-> FALSE]
    ELSE [db |-> db, raised |-> TRUE]

\* The argument of query.or_(): the f-string of get_projects, token by token.
OrFilter(kw) ==
    <<"project_name", ".", "ilike", ".", "%">> \o kw \o
    <<"%", ",", "description", ".", "ilike", ".", "%">> \o kw \o <<"%">>

\* The store splits an or-filter into its conditions at every comma.
RECURSIVE Split(_, _)
Split(s, sep) ==
    IF \A i \in 1..Len(s) : s[i] # sep THEN <<s>>
    ELSE LET i == CHOOSE i \in 1..Len(s) :
                      s[i] = sep /\ \A j \in 1..(i - 1) : s[j] # sep
         IN  <<SubSeq(s, 1, i - 1)>> \o Split(SubSeq(s, i + 1, Len(s)), sep)

\* A condition the store accepts: <column>.ilike.<pattern>.
WellFormed(cond) ==
    /\ Len(cond) >= 4
    /\ cond[1] \in {"project_name", "description"}
    /\ cond[2] = "." /\ cond[3] = "ilike" /\ cond[4] = "."

\* The conditions of an or-filter.
Conditions(f) == Split(f, ",")

FilterParses(conds) ==
    \A i \in 1..Len(conds) : WellFormed(conds[i])

\* OR semantics: the row satisfies at least one condition.
FilterMatches(r, conds) ==
    \E i \in 1..Len(conds) :
        ILike(r[conds[i][1]], SubSeq(conds[i], 5, Len(conds[i])))

RECURSIVE Perms(_)
Perms(S) ==
    IF S = {} THEN {<<>>}
    ELSE UNION {{<<x>> \o p : p \in Perms(S \ {x})} : x \in S}

\* Mutant of OrderByDateDesc: desc=True is missing, the order is ascending.
OrderByDateAsc(rows) ==
    {s \in Perms(rows) :
        \A i \in 1..(Len(s) - 1) : s[i].date_added <= s[i + 1].date_added}

\* .order("date_added", desc=True): every listing of the rows with date_added
\* non-increasing; the order among equal date_added is the store's choice.
OrderByDateDesc(rows) ==
    {s \in Perms(rows) :
        \A i \in 1..(Len(s) - 1) : s[i].date_added >= s[i + 1].date_added}

\* The rows the query of get_projects selects.
Selected(tbl, kw) ==
    IF Truthy(kw)
    THEN LET conds == Conditions(OrFilter(kw))
         IN  {r \in tbl : FilterMatches(r, conds)}
    ELSE tbl

\* get_projects: every outcome the call can have.  execute() raises when the
\* request fails or the store rejects the filter; otherwise res.data or [].
get_projects(db, kw, ok) ==
    IF ~ok \/ (Truthy(kw) /\ ~FilterParses(Conditions(OrFilter(kw))))
    THEN {[raised |-> TRUE, data |-> <<>>]}
    ELSE {[raised |-> FALSE, data |-> s] :
             s \in OrderByDateDesc(Selected(db.table, kw))}

\* ---------------------------------------------- SpecDAL: direct callers
\* The functions exist once the module has passed its credentials guard.

NoEvent == [type |-> "none", id |-> 0, name |-> <<>>, desc |-> <<>>]

Init ==
    /\ table = {}
    /\ nextId = 1
    /\ clock = 0
    /\ deleted = {}
    /\ credentials \in BOOLEAN
    /\ calls = <<>>
    /\ menu = "add"
    /\ keyword = <<>>
    /\ event = NoEvent
    /\ shown = {}
    /\ projects = <<>>
    /\ editForm = 0
    /\ pending = FALSE
    /\ sending = 0
    /\ actor = "session"

SetDb(db) ==
    /\ table' = db.table
    /\ nextId' = db.nextId
    /\ clock' = db.clock

AddProject ==
    \E name \in Texts, desc \in Texts, ok \in BOOLEAN, tick \in {0, 1} :
        /\ credentials
        /\ calls = <<>>
        /\ nextId <= MaxId
        /\ LET out == add_project(Db, name, desc, ok, tick)
           IN  /\ SetDb(out.db)
               /\ calls' = <<Call("add_project", 0, name, desc, None,
                                  out.raised, <<>>)>>
        /\ UNCHANGED <<histVars, credentials, uiVars>>

UpdateProject ==
    \E id \in Ids, name \in Texts, desc \in Texts, ok \in BOOLEAN :
        /\ credentials
        /\ calls = <<>>
        /\ LET out == update_project(Db, id, name, desc, ok)
           IN  /\ SetDb(out.db)
               /\ calls' = <<Call("update_project", id, name, desc, None,
                                  out.raised, <<>>)>>
        /\ UNCHANGED <<histVars, credentials, uiVars>>

\* A direct call of delete_project(id).
DeleteCall(id, ok) ==
    /\ credentials
    /\ calls = <<>>
    /\ LET out == delete_project(Db, id, ok)
       IN  /\ SetDb(out.db)
           /\ calls' = <<Call("delete_project", id, <<>>, <<>>, None,
                              out.raised, <<>>)>>
    /\ UNCHANGED <<credentials, uiVars>>

DeleteProject ==
    \E id \in Ids, ok \in BOOLEAN :
        /\ DeleteCall(id, ok)
        /\ UNCHANGED histVars

GetProjects ==
    /\ credentials
    /\ calls = <<>>
    /\ \E kw \in Keywords \cup {None}, ok \in BOOLEAN :
        \E out \in get_projects(Db, kw, ok) :
            /\ calls' = <<Call("get_projects", 0, <<>>, <<>>, kw,
                               out.raised, out.data)>>
            /\ UNCHANGED <<storeVars, histVars, credentials, uiVars>>

\* The caller takes the return value (or the exception) and is free to call again.
Return ==
    /\ calls # <<>>
    /\ calls' = <<>>
    /\ UNCHANGED <<storeVars, histVars, credentials, uiVars>>

NextDAL ==
    AddProject \/ UpdateProject \/ DeleteProject \/ GetProjects \/ Return

SpecDAL == Init /\ [][NextDAL]_vars

\* ------------------------------------------------ Spec: the Streamlit script

\* What one execution of the script leaves behind.
Outcome(db, msgs, listing, form, log, rerun) ==
    [db |-> db, shown |-> msgs, projects |-> listing, editForm |-> form,
     calls |-> log, rerun |-> rerun]

Event(type, id, name, desc) ==
    [type |-> type, id |-> id, name |-> name, desc |-> desc]

\* init_db: the DDL sent through rpc("execute_sql"); whatever execute()
\* raises is caught inside, so init_db itself never raises.
init_db(rpcOk) ==
    [raised |-> FALSE,
     calls |-> <<Call("execute_sql", 0, <<>>, <<>>, None, ~rpcOk, <<>>)>>]

\* Mutant of AddView: add_project(desc, name), the arguments swapped.
AddViewSwapped(db, ev, ok, tick) ==
    IF ev.type # "submit_add"
    THEN Outcome(db, {}, <<>>, 0, <<>>, FALSE)
    ELSE IF Truthy(strip(ev.name)) /\ Truthy(strip(ev.desc))
    THEN LET out == add_project(db, ev.desc, ev.name, ok, tick)
             log == <<Call("add_project", 0, ev.desc, ev.name, None,
                           out.raised, <<>>)>>
         IN  IF out.raised
             THEN Outcome(out.db, {"exception"}, <<>>, 0, log, FALSE)
             ELSE Outcome(out.db, {"success_added"}, <<>>, 0, log, FALSE)
    ELSE Outcome(db, {"warning_fill"}, <<>>, 0, <<>>, FALSE)

\* Mutant of AddView: the check reads `or` where the code reads `and`.
AddViewOr(db, ev, ok, tick) ==
    IF ev.type # "submit_add"
    THEN Outcome(db, {}, <<>>, 0, <<>>, FALSE)
    ELSE IF Truthy(strip(ev.name)) \/ Truthy(strip(ev.desc))
    THEN LET out == add_project(db, ev.name, ev.desc, ok, tick)
             log == <<Call("add_project", 0, ev.name, ev.desc, None,
                           out.raised, <<>>)>>
         IN  IF out.raised
             THEN Outcome(out.db, {"exception"}, <<>>, 0, log, FALSE)
             ELSE Outcome(out.db, {"success_added"}, <<>>, 0, log, FALSE)
    ELSE Outcome(db, {"warning_fill"}, <<>>, 0, <<>>, FALSE)

\* Mutant of AddView: add_project wrapped in try/except: pass, as init_db
\* wraps its rpc, so the success message follows a failed insert too.
AddViewSwallow(db, ev, ok, tick) ==
    IF ev.type # "submit_add"
    THEN Outcome(db, {}, <<>>, 0, <<>>, FALSE)
    ELSE IF Truthy(strip(ev.name)) /\ Truthy(strip(ev.desc))
    THEN LET out == add_project(db, ev.name, ev.desc, ok, tick)
             log == <<Call("add_project", 0, ev.name, ev.desc, None,
                           out.raised, <<>>)>>
         IN  Outcome(out.db, {"success_added"}, <<>>, 0, log, FALSE)
    ELSE Outcome(db, {"warning_fill"}, <<>>, 0, <<>>, FALSE)

\* The Add view, lines 88-99: the form; on submit the two fields are checked
\* with strip() and add_project runs with the fields as typed.  An exception
\* of add_project ends the run and Streamlit shows it in place of the rest.
AddView(db, ev, ok, tick) ==
    IF ev.type # "submit_add"
    THEN Outcome(db, {}, <<>>, 0, <<>>, FALSE)
    ELSE IF Truthy(strip(ev.name)) /\ Truthy(strip(ev.desc))
    THEN LET out == add_project(db, ev.name, ev.desc, ok, tick)
             log == <<Call("add_project", 0, ev.name, ev.desc, None,
                           out.raised, <<>>)>>
         IN  IF out.raised
             THEN Outcome(out.db, {"exception"}, <<>>, 0, log, FALSE)
             ELSE Outcome(out.db, {"success_added"}, <<>>, 0, log, FALSE)
    ELSE Outcome(db, {"warning_fill"}, <<>>, 0, <<>>, FALSE)

\* The ids of a rendered listing.
ListedIds(listing) == {listing[i].id : i \in 1..Len(listing)}

\* The part of the listing the loop has rendered when it is at project `id`.
UpTo(listing, id) ==
    SubSeq(listing, 1, CHOOSE i \in 1..Len(listing) : listing[i].id = id)

\* The Dashboard view, lines 101-139.  `got` is the outcome of
\* get_projects(keyword).  st.button is True only in the run its click
\* triggered, and only a button this run renders can have been clicked.  The
\* edit form and its Update button are created inside the Edit branch, so
\* form_submit_button("Update") is evaluated only in a run Edit triggered.
\* An exception or st.experimental_rerun() ends the run inside the loop, at
\* the project whose button was clicked: the projects after it are not
\* rendered.
DashboardView(db, kw, ev, got, ok) ==
    LET log == <<Call("get_projects", 0, <<>>, <<>>, kw, got.raised, got.data)>>
        listed == ev.id \in ListedIds(got.data)
        editButton == ev.type = "click_edit" /\ listed
        updateButton == ev.type = "submit_update" /\ listed
        deleteButton == ev.type = "click_delete" /\ listed
    IN  IF got.raised
        THEN Outcome(db, {"exception"}, <<>>, 0, log, FALSE)
        ELSE IF got.data = <<>>
        THEN Outcome(db, {"info_none"}, <<>>, 0, log, FALSE)
        ELSE IF editButton
        THEN IF updateButton
             THEN LET out == update_project(db, ev.id, ev.name, ev.desc, ok)
                      ulog == log \o <<Call("update_project", ev.id, ev.name,
                                            ev.desc, None, out.raised, <<>>)>>
                  IN  IF out.raised
                      THEN Outcome(out.db, {"exception"}, UpTo(got.data, ev.id),
                                   ev.id, ulog, FALSE)
                      ELSE Outcome(out.db, {"success_updated"},
                                   UpTo(got.data, ev.id), ev.id, ulog, TRUE)
             ELSE Outcome(db, {}, got.data, ev.id, log, FALSE)
        ELSE IF deleteButton
        THEN LET out == delete_project(db, ev.id, ok)
                 dlog == log \o <<Call("delete_project", ev.id, <<>>, <<>>,
                                       None, out.raised, <<>>)>>
             IN  IF out.raised
                 THEN Outcome(out.db, {"exception"}, UpTo(got.data, ev.id), 0,
                              dlog, FALSE)
                 ELSE Outcome(out.db, {"warning_deleted"},
                              UpTo(got.data, ev.id), 0, dlog, TRUE)
        ELSE Outcome(db, {}, got.data, 0, log, FALSE)

\* One execution of the script, lines 9-139: without both credentials
\* st.error and st.stop(); otherwise the client, init_db under try/except
\* with st.warning, then the view the sidebar selects.
Script(creds, db, m, kw, ev, rpcOk, got, ok, tick) ==
    IF ~creds
    THEN Outcome(db, {"error_credentials"}, <<>>, 0, <<>>, FALSE)
    ELSE LET schema == init_db(rpcOk)
             view == IF m = "add" THEN AddView(db, ev, ok, tick)
                     ELSE DashboardView(db, kw, ev, got, ok)
         IN  [view EXCEPT
                !.calls = schema.calls \o @,
                !.shown = (IF schema.raised THEN {"schema_warning"} ELSE {})
                          \cup @]

NoOutcome == [raised |-> FALSE, data |-> <<>>]
Quiet == Event("rerun", 0, <<>>, <<>>)

\* The ids of the delete_project calls of a log that returned.
Completed(log) ==
    {log[i].id : i \in {k \in 1..Len(log) :
                            log[k].op = "delete_project" /\ ~log[k].raised}}

\* The page and the store after a run of this session.
Commit(out, ev) ==
    /\ SetDb(out.db)
    /\ shown' = out.shown
    /\ projects' = out.projects
    /\ editForm' = out.editForm
    /\ calls' = out.calls
    /\ pending' = out.rerun
    /\ sending' = 0
    /\ event' = ev
    /\ actor' = "session"
    /\ deleted' = deleted \cup Completed(out.calls)

Loaded == event.type # "none"

\* The page is up, its widgets are rendered, no run is under way and no
\* re-run is due.
Interactive == Loaded /\ credentials /\ ~pending /\ sending = 0

\* The browser opens the page: the first run, on the default view.
PageLoad ==
    /\ ~Loaded
    /\ calls = <<>>
    /\ UNCHANGED <<menu, keyword, credentials>>
    /\ \E rpcOk \in BOOLEAN :
        Commit(Script(credentials, Db, menu, keyword,
                      Event("load", 0, <<>>, <<>>), rpcOk, NoOutcome, TRUE, 0),
               Event("load", 0, <<>>, <<>>))

\* Sidebar: the Add view.  The search box is not rendered there, so its
\* value is gone when the Dashboard comes back.
NavigateAdd ==
    /\ Interactive
    /\ menu = "dashboard"
    /\ menu' = "add"
    /\ keyword' = <<>>
    /\ UNCHANGED credentials
    /\ \E rpcOk \in BOOLEAN :
        Commit(Script(credentials, Db, "add", <<>>,
                      Event("navigate", 0, <<>>, <<>>), rpcOk, NoOutcome, TRUE, 0),
               Event("navigate", 0, <<>>, <<>>))

\* Sidebar: the Dashboard.
NavigateDashboard ==
    /\ Interactive
    /\ menu = "add"
    /\ menu' = "dashboard"
    /\ keyword' = <<>>
    /\ UNCHANGED credentials
    /\ \E rpcOk \in BOOLEAN, okSel \in BOOLEAN :
        \E got \in get_projects(Db, <<>>, okSel) :
            Commit(Script(credentials, Db, "dashboard", <<>>,
                          Event("navigate", 0, <<>>, <<>>), rpcOk, got, TRUE, 0),
                   Event("navigate", 0, <<>>, <<>>))

\* "Save Project" on the Add form.  Two submissions of one session are two
\* round trips, so current_timestamp has moved on between them.
SubmitAdd ==
    /\ Interactive
    /\ menu = "add"
    /\ UNCHANGED <<menu, keyword, credentials>>
    /\ \E name \in NameTexts, desc \in DescTexts :
        /\ (Truthy(strip(name)) /\ Truthy(strip(desc))) => nextId <= MaxId
        /\ \E rpcOk \in BOOLEAN,
              ok \in IF Truthy(strip(name)) /\ Truthy(strip(desc))
                     THEN BOOLEAN ELSE {TRUE} :
            Commit(Script(credentials, Db, "add", keyword,
                          Event("submit_add", 0, name, desc),
                          rpcOk, NoOutcome, ok, 1),
                   Event("submit_add", 0, name, desc))

\* What the user types into the search box.
SearchTerms == {<<>>, <<"B">>, <<",">>}

\* A new text in the search box.
Search ==
    /\ Interactive
    /\ menu = "dashboard"
    /\ UNCHANGED <<menu, credentials>>
    /\ \E kw \in SearchTerms \ {keyword} :
        /\ keyword' = kw
        /\ \E rpcOk \in BOOLEAN, okSel \in BOOLEAN :
            \E got \in get_projects(Db, kw, okSel) :
                Commit(Script(credentials, Db, "dashboard", kw,
                              Event("search", 0, <<>>, <<>>), rpcOk, got, TRUE, 0),
                       Event("search", 0, <<>>, <<>>))

\* One Dashboard run, triggered by `ev`, whose only request to the table
\* before a write is the select of get_projects; `oks` are the outcomes of
\* the write the run may reach.
DashboardRun(ev, oks) ==
    \E rpcOk \in BOOLEAN, okSel \in BOOLEAN, ok \in oks :
        \E got \in get_projects(Db, keyword, okSel) :
            Commit(Script(credentials, Db, "dashboard", keyword, ev,
                          rpcOk, got, ok, 0),
                   ev)

\* "Copy" on a project of the page: the run lists the projects again and
\* copy_to_clipboard adds its script markup, which is no message.
ClickCopy ==
    /\ Interactive
    /\ menu = "dashboard"
    /\ UNCHANGED <<menu, keyword, credentials>>
    /\ \E id \in ListedIds(projects) :
        DashboardRun(Event("click_copy", id, <<>>, <<>>), {TRUE})

\* "Edit" on a project of the page.
ClickEdit ==
    /\ Interactive
    /\ menu = "dashboard"
    /\ UNCHANGED <<menu, keyword, credentials>>
    /\ \E id \in ListedIds(projects) :
        DashboardRun(Event("click_edit", id, <<>>, <<>>), {TRUE})

\* "Update" on the open edit form, with the two fields as the user left them.
SubmitUpdate ==
    /\ Interactive
    /\ menu = "dashboard"
    /\ editForm # 0
    /\ UNCHANGED <<menu, keyword, credentials>>
    /\ \E name \in Texts, desc \in Texts :
        DashboardRun(Event("submit_update", editForm, name, desc), BOOLEAN)

\* The run triggered by `ev` gets as far as delete_project: its listing
\* holds the project whose Delete button was clicked.
ReachesDelete(ev, got) ==
    /\ ev.type = "click_delete"
    /\ ~got.raised
    /\ ev.id \in ListedIds(got.data)

\* The run at line 134, before the delete request is sent: the projects up
\* to the clicked one are on the page.
BeforeDelete(db, kw, ev, rpcOk, got) ==
    Outcome(db, {}, UpTo(got.data, ev.id), 0,
            init_db(rpcOk).calls
                \o <<Call("get_projects", 0, <<>>, <<>>, kw, got.raised, got.data)>>,
            FALSE)

\* "Delete" on a project of the page: the run up to its delete request, or
\* the whole run when the listing no longer holds the project.
ClickDelete ==
    /\ Interactive
    /\ menu = "dashboard"
    /\ UNCHANGED <<menu, keyword, credentials>>
    /\ \E id \in ListedIds(projects), rpcOk \in BOOLEAN, okSel \in BOOLEAN :
        \E got \in get_projects(Db, keyword, okSel) :
            LET ev == Event("click_delete", id, <<>>, <<>>)
                out == BeforeDelete(Db, keyword, ev, rpcOk, got)
            IN  IF ReachesDelete(ev, got)
                THEN /\ calls' = out.calls
                     /\ shown' = out.shown
                     /\ projects' = out.projects
                     /\ editForm' = out.editForm
                     /\ pending' = FALSE
                     /\ sending' = id
                     /\ event' = ev
                     /\ actor' = "session"
                     /\ UNCHANGED <<storeVars, histVars>>
                ELSE Commit(Script(credentials, Db, "dashboard", keyword, ev,
                                   rpcOk, got, TRUE, 0),
                            ev)

\* The delete request of the running script reaches the table as it is by
\* then, and the run goes on from the response.
DeleteArrives ==
    /\ sending # 0
    /\ UNCHANGED <<menu, keyword, credentials>>
    /\ \E ok \in BOOLEAN :
        Commit(Script(credentials, Db, "dashboard", keyword, event,
                      ~calls[1].raised,
                      [raised |-> FALSE, data |-> calls[2].data], ok, 0),
               event)

\* st.experimental_rerun(): the run has ended; the script runs again from the
\* top with no widget triggered and sends its own requests.
Rerun ==
    /\ pending
    /\ UNCHANGED <<menu, keyword, credentials>>
    /\ DashboardRun(Quiet, {TRUE})

\* Another session of the app saves a project.
OtherSessionAdds ==
    /\ Loaded
    /\ credentials
    /\ nextId <= MaxId
    /\ SetDb(add_project(Db, <<"a">>, <<"A", "b">>, TRUE, 1).db)
    /\ actor' = "other"
    /\ UNCHANGED <<histVars, credentials, calls, menu, keyword, event, shown,
                   projects, editForm, pending, sending>>

\* Another session of the app deletes a project its page lists.
OtherSessionDeletes ==
    /\ Loaded
    /\ credentials
    /\ \E r \in table :
        /\ SetDb(delete_project(Db, r.id, TRUE).db)
        /\ deleted' = deleted \cup {r.id}
    /\ actor' = "other"
    /\ UNCHANGED <<credentials, calls, menu, keyword, event, shown, projects,
                   editForm, pending, sending>>

Next ==
    \/ PageLoad
    \/ NavigateAdd
    \/ NavigateDashboard
    \/ SubmitAdd
    \/ Search
    \/ ClickCopy
    \/ ClickEdit
    \/ SubmitUpdate
    \/ ClickDelete
    \/ DeleteArrives
    \/ Rerun
    \/ OtherSessionAdds
    \/ OtherSessionDeletes

Spec == Init /\ [][Next]_vars

\* ================================================================ claims

TableIds(tbl) == {r.id : r \in tbl}
Rows(listing) == {listing[i] : i \in 1..Len(listing)}

\* The calls of operation `op` in a log.
CallsOf(log, op) == {i \in 1..Len(log) : log[i].op = op}

\* The step is a direct call of `op` that returned without raising.
Returned(op) ==
    /\ calls = <<>>
    /\ Len(calls') = 1
    /\ calls'[1].op = op
    /\ ~calls'[1].raised

\* ---------------------------------------------------------------- C1

\* The effect C1 describes for a submission of (name, desc): add_project is
\* called once with them and, when the insert goes through, the table gains
\* exactly one row carrying them, under a new id, every earlier row stays,
\* and get_projects() with no keyword returns the new row.
AddedOnce(name, desc) ==
    /\ Cardinality(CallsOf(calls', "add_project")) = 1
    /\ \A i \in CallsOf(calls', "add_project") :
        /\ calls'[i].name = name
        /\ calls'[i].desc = desc
        /\ ~calls'[i].raised =>
            \E r \in table' :
                /\ r.id \notin TableIds(table)
                /\ table' = table \cup {r}
                /\ Cardinality(table') = Cardinality(table) + 1
                /\ r.project_name = name
                /\ r.description = desc
                /\ \A out \in get_projects(
                        [table |-> table', nextId |-> nextId',
                         clock |-> clock'], None, TRUE) :
                      ~out.raised /\ r \in Rows(out.data)

\* C1 as claimed: every Add-form submission with a non-empty name and a
\* non-empty description calls add_project once and adds exactly one row
\* with the submitted name and description.
C1_NonEmptyAdds ==
    [][(/\ actor' = "session"
        /\ event'.type = "submit_add"
        /\ event'.name # <<>> /\ event'.desc # <<>>)
        => AddedOnce(event'.name, event'.desc)]_vars

\* C1 amended: every Add-form submission whose name and description are both
\* non-empty after strip() calls add_project once and adds exactly one row
\* with the name and description as typed.
C1_NonBlankAdds ==
    [][(/\ actor' = "session"
        /\ event'.type = "submit_add"
        /\ strip(event'.name) # <<>> /\ strip(event'.desc) # <<>>)
        => AddedOnce(event'.name, event'.desc)]_vars

\* A valid submission went through while the table already held a row.
C1_Witness ==
    /\ event.type = "submit_add"
    /\ strip(event.name) # <<>> /\ strip(event.desc) # <<>>
    /\ event.name # event.desc
    /\ \E i \in CallsOf(calls, "add_project") : ~calls[i].raised
    /\ Cardinality(table) >= 2
    /\ \E r \in table :
        /\ r.id = nextId - 1
        /\ r.project_name = event.name
        /\ r.description = event.desc

\* ---------------------------------------------------------------- C2

\* C2: an Add-form submission with an empty name or an empty description
\* never calls add_project, leaves the table unchanged, shows the warning
\* and shows no success message.
C2_EmptyRejected ==
    [][(/\ actor' = "session"
        /\ event'.type = "submit_add"
        /\ (event'.name = <<>> \/ event'.desc = <<>>))
        => /\ CallsOf(calls', "add_project") = {}
           /\ table' = table
           /\ "warning_fill" \in shown'
           /\ "success_added" \notin shown']_vars

\* A submission with one field empty and the other filled in was rejected.
C2_Witness ==
    /\ event.type = "submit_add"
    /\ event.name = <<>>
    /\ strip(event.desc) # <<>>
    /\ "warning_fill" \in shown
    /\ table # {}

\* ---------------------------------------------------------------- C3

\* The rows a case-insensitive substring search for kw is to return.
Containing(tbl, kw) ==
    {r \in tbl : ContainsCI(r.project_name, kw) \/ ContainsCI(r.description, kw)}

\* C3 as claimed: whenever get_projects(K) has been called, the store, given
\* the request, answers it with exactly the rows whose project_name or
\* description contains K ignoring case when K is non-empty, and with all
\* rows for no keyword or an empty one.
C3_ExactSubstringSearch ==
    \A i \in CallsOf(calls, "get_projects") :
        \A out \in get_projects(Db, calls[i].keyword, TRUE) :
            /\ ~out.raised
            /\ Rows(out.data) = IF Truthy(calls[i].keyword)
                                THEN Containing(table, calls[i].keyword)
                                ELSE table

\* ---------------------------------------------------------------- C4

\* C4 as claimed: the run triggered by Update on the open edit form calls
\* update_project with the form's id and the name and description entered.
C4_UpdateSubmitted ==
    event.type = "submit_update" =>
        \E i \in CallsOf(calls, "update_project") :
            /\ calls[i].id = event.id
            /\ calls[i].name = event.name
            /\ calls[i].desc = event.desc

\* ---------------------------------------------------------------- C5

\* C5: update_project(id, name, desc) on an existing row gives that row the
\* name and description and keeps its id and date_added; rows with another
\* id are unchanged and the number of rows stays.
C5_UpdateFrame ==
    [][(Returned("update_project") /\ calls'[1].id \in TableIds(table))
        => /\ \A r \in table :
                IF r.id = calls'[1].id
                THEN \E q \in table' :
                        /\ q.id = r.id
                        /\ q.date_added = r.date_added
                        /\ q.project_name = calls'[1].name
                        /\ q.description = calls'[1].desc
                ELSE r \in table'
           /\ Cardinality(table') = Cardinality(table)
           /\ TableIds(table') = TableIds(table)]_vars

\* An update of an existing row returned, with another row in the table.
C5_Witness ==
    /\ Len(calls) = 1
    /\ calls[1].op = "update_project"
    /\ ~calls[1].raised
    /\ \E r \in table :
        /\ r.id = calls[1].id
        /\ r.project_name = calls[1].name
        /\ r.description = calls[1].desc
    /\ \E r \in table : r.id # calls[1].id

\* --------------------------------------------------------------- C10

\* C10: update_project with an id no row has leaves the table as it is.
C10_UpdateAbsentNoOp ==
    [][(Returned("update_project") /\ calls'[1].id \notin TableIds(table))
        => table' = table]_vars

\* An update returned for an id whose row had been deleted, other rows present.
C10_Witness ==
    /\ Len(calls) = 1
    /\ calls[1].op = "update_project"
    /\ ~calls[1].raised
    /\ calls[1].id < nextId
    /\ calls[1].id \notin TableIds(table)
    /\ table # {}

\* ---------------------------------------------------------------- C6

\* C6: once a delete_project(id) call of the script has completed, no
\* get_projects call made afterwards returns a row with that id, whatever
\* the sessions add or delete in between; and a completing delete removes
\* no row with another id.  A run makes its get_projects call in the step
\* that starts it.
C6_DeletedStaysGone ==
    /\ [][(actor' = "session" /\ sending = 0)
            => \A i \in CallsOf(calls', "get_projects") :
                 \A r \in Rows(calls'[i].data) : r.id \notin deleted]_vars
    /\ [][\A r \in table : r.id \notin (deleted' \ deleted) => r \in table']_vars

\* The re-run after a completed Delete listed the projects: the deleted one
\* is not among them, a project added after it is.
C6_Witness ==
    /\ actor = "session"
    /\ event = Quiet
    /\ \E i \in CallsOf(calls, "get_projects") :
        /\ ~calls[i].raised
        /\ \E r \in Rows(calls[i].data) : \E d \in deleted : d < r.id

\* ---------------------------------------------------------------- C7

\* The listing is ordered by date_added, latest first.
Descending(listing) ==
    \A i \in 1..(Len(listing) - 1) :
        listing[i].date_added >= listing[i + 1].date_added

\* The place of the row with id `id` in a listing.
Pos(listing, id) == CHOOSE i \in 1..Len(listing) : listing[i].id = id

\* Rows a and b come in the same order in both listings.
SameOrder(before, after, a, b) ==
    (Pos(before, a) < Pos(before, b)) <=> (Pos(after, a) < Pos(after, b))

\* Every listing get_projects(kw) can return for a table.
Listings(tbl, kw) ==
    {out.data : out \in {o \in get_projects(
        [table |-> tbl, nextId |-> 0, clock |-> 0], kw, TRUE) :
        ~o.raised}}

\* C7 as claimed: every listing returned is ordered by date_added
\* descending, and across an update any two rows listed before and after
\* keep their order.
C7_OrderedAndStable ==
    /\ [](\A i \in CallsOf(calls, "get_projects") : Descending(calls[i].data))
    /\ [][Returned("update_project")
            => \A kw \in Keywords \cup {None} :
                 \A before \in Listings(table, kw), after \in Listings(table', kw) :
                   \A a, b \in TableIds(Rows(before)) \cap TableIds(Rows(after)) :
                     SameOrder(before, after, a, b)]_vars

\* C7 amended: every listing returned is ordered by date_added descending;
\* an update changes no row's date_added, and across it any two rows with
\* different date_added listed before and after keep their order.
C7_OrderedStableUpToTies ==
    /\ [](\A i \in CallsOf(calls, "get_projects") : Descending(calls[i].data))
    /\ [][Returned("update_project")
            => /\ \A r \in table : \A q \in table' :
                    q.id = r.id => q.date_added = r.date_added
               /\ \A kw \in Keywords \cup {None} :
                    \A before \in Listings(table, kw), after \in Listings(table', kw) :
                      \A x \in Rows(before), y \in Rows(before) :
                        (/\ x.date_added # y.date_added
                         /\ {x.id, y.id} \subseteq TableIds(Rows(after)))
                        => SameOrder(before, after, x.id, y.id)]_vars

\* A listing of two rows created at different times came back, the later
\* one first.
C7_Witness ==
    /\ Len(calls) = 1
    /\ calls[1].op = "get_projects"
    /\ ~calls[1].raised
    /\ Len(calls[1].data) >= 2
    /\ calls[1].data[1].date_added > calls[1].data[2].date_added
    /\ calls[1].data[1].id > calls[1].data[2].id

\* ---------------------------------------------------------------- C8

TableOps == {"add_project", "update_project", "delete_project", "get_projects"}

\* The message that reports the success of an operation.
SuccessMessage(op) ==
    CASE op = "add_project" -> {"success_added"}
      [] op = "update_project" -> {"success_updated"}
      [] op = "delete_project" -> {"warning_deleted"}
      [] OTHER -> {}

\* C8: when an insert, update, delete or select issued by the script fails,
\* the page shows the failure, no further store call follows it in the run
\* and no re-run is started (no retry), and the operation's success message
\* is not shown.
C8_FailureShown ==
    \A i \in 1..Len(calls) :
        (calls[i].op \in TableOps /\ calls[i].raised)
        => /\ "exception" \in shown
           /\ i = Len(calls)
           /\ ~pending
           /\ SuccessMessage(calls[i].op) \cap shown = {}

\* A failed insert from the Add form is on the page.
C8_Witness ==
    /\ event.type = "submit_add"
    /\ \E i \in CallsOf(calls, "add_project") : calls[i].raised
    /\ "exception" \in shown

\* ---------------------------------------------------------------- C9

\* C9 as claimed: a run in which the schema creation of init_db failed
\* shows the schema warning.
C9_SchemaWarningShown ==
    \A i \in CallsOf(calls, "execute_sql") :
        calls[i].raised => "schema_warning" \in shown

=============================================================================
